---- MODULE Spec2Model ----
(***************************************************************************)
(* Model of src/questionai.js: waitForElement and injectCssIntoPlasmoHost  *)
(* running on a browser event loop (tasks, FIFO microtasks, timers and     *)
(* mutation observers) against a document holding the plasmo-csui hosts.   *)
(***************************************************************************)
EXTENDS Integers, Sequences, FiniteSets, TLC

\* ---------------------------------------------------------------- bounds
\* Number of calls of injectCssIntoPlasmoHost made over a run.
NumInvocations == 2
\* Number of insertions and removals of host elements the page performs.
MaxMutations == 2

\* ------------------------------------------------------------- constants
HostA == "qaiSidebarShadowHostEl"
HostB == "qaiUnderlineWordShadowHostEl"
HOST_IDS == <<HostA, HostB, HostA>>
STYLE_ID == "my-custom-shadow-style"
DefaultWaitTimeout == 5000

\* The distinct elements the selectors `plasmo-csui#${hostId}` can match.
Hosts == {HOST_IDS[k] : k \in DOMAIN HOST_IDS}
Positions == DOMAIN HOST_IDS
Invocations == 1..NumInvocations

\* The value of a failed querySelector / getElementById.
Null == "null"

\* CSS texts handed to injectCssIntoPlasmoHost; OldCss is the text of a style
\* node that an earlier page load left in a shadow root.
CssTexts == {"cssA", "cssB"}
OldCss == "cssOld"

\* Option records {wait, waitTimeout} a caller passes.
OptionRecords ==
    { [wait |-> FALSE, waitTimeout |-> DefaultWaitTimeout],
      [wait |-> TRUE, waitTimeout |-> DefaultWaitTimeout],
      [wait |-> TRUE, waitTimeout |-> 0] }

\* ---------------------------------------------------------- the document
\* A child node of a shadow root: identity, id attribute, text content.
Node(n, i, t) == [nid |-> n, id |-> i, text |-> t]

\* A host element: whether it is in the document, the mode of its shadow
\* root ("none", "open", "closed"), what its attachShadow property is
\* ("ok": a function that attaches, "throws": a function that throws,
\* "nofn": not a function), and the children of its shadow root.
HostElement(inDoc, mode, attach, children) ==
    [inDoc |-> inDoc, mode |-> mode, attach |-> attach, children |-> children]

\* The shadow trees a host can carry when the script is loaded; node
\* identities are distinct over the two hosts (base is 0 or 2).
InitialTrees(base) ==
    { <<Node(base + 1, "app-root", "")>>,
      <<Node(base + 1, "app-root", ""), Node(base + 2, STYLE_ID, OldCss)>> }

InitialHosts(base) ==
    {HostElement(d, "open", "ok", c) : d \in BOOLEAN, c \in InitialTrees(base)}
    \cup {HostElement(d, "none", a, <<>>) : d \in BOOLEAN, a \in {"ok", "throws", "nofn"}}
    \cup {HostElement(d, "closed", "ok", <<Node(base + 1, "app-root", "")>>) : d \in BOOLEAN}

VARIABLES
    hosts,        \* [Hosts -> HostElement]: the elements and their shadow trees
    nextNid,      \* identity of the next node document.createElement returns
    attachCalls,  \* [Hosts -> Nat]: calls of attachShadow made on each host
    inv,          \* [Invocations -> invocation record]
    waits,        \* [Invocations -> [Positions -> wait record]]
    microtasks,   \* FIFO queue of pending microtasks
    presence,     \* [Hosts -> "initial" | "inserted" | "removed"]: what the page
                  \* did with the element so far: nothing, inserted it and
                  \* never removed it, or removed it at least once
    mutations,    \* number of insertions and removals performed so far
    startedAfter, \* [Invocations -> the invocations settled when it was called]
    lastUpsert    \* [Hosts -> the invocation whose style upsert on the host ran
                  \* last, 0 if none did]

vars ==
    <<hosts, nextNid, attachCalls, inv, waits, microtasks, presence, mutations,
      startedAfter, lastUpsert>>

\* document.querySelector(`plasmo-csui#${hostId}`)
QuerySelector(hs, hostId) ==
    IF hostId \in DOMAIN hs /\ hs[hostId].inDoc THEN hostId ELSE Null

\* hostEl.shadowRoot: the root when it is open, null otherwise.
ShadowRoot(hs, el) == IF hs[el].mode = "open" THEN el ELSE Null

\* typeof hostEl.attachShadow === 'function'
HasAttachShadow(hs, el) == hs[el].attach # "nofn"

\* Whether hostEl.attachShadow({mode: 'open'}) throws: the host forbids it,
\* or a shadow root (open or closed) is already attached.
AttachShadowThrows(hs, el) == hs[el].attach = "throws" \/ hs[el].mode # "none"

\* sr.getElementById(id): index of the first child with that id, 0 if none.
GetElementById(children, id) ==
    LET idx == {j \in DOMAIN children : children[j].id = id}
    IN IF idx = {} THEN 0 ELSE CHOOSE j \in idx : \A m \in idx : j <= m

\* ------------------------------------------------- injectCssIntoPlasmoHost
\* The document as the synchronous code reads and writes it.
Doc(hs, n, ac) == [hosts |-> hs, nextNid |-> n, attachCalls |-> ac]

FailRecord(hostId, reason) == [hostId |-> hostId, ok |-> FALSE, reason |-> reason]
OkRecord(hostId, used) == [hostId |-> hostId, ok |-> TRUE, used |-> used]

\* The outcome of processing one identifier: the document and the record
\* pushed; thrown tells that an exception left the loop body instead.
Outcome(d, rec) ==
    [hosts |-> d.hosts, nextNid |-> d.nextNid, attachCalls |-> d.attachCalls,
     rec |-> rec, thrown |-> FALSE]

\* An exception that no try block of the loop body catches.
Uncaught(d) ==
    [hosts |-> d.hosts, nextNid |-> d.nextNid, attachCalls |-> d.attachCalls,
     rec |-> Null, thrown |-> TRUE]

\* style.textContent = cssText, on the child at index j.
SetTextContent(children, j, cssText) ==
    [children EXCEPT ![j] = [@ EXCEPT !.text = cssText]]

\* UpsertStyle without the lookup of line 66: a style node is created and
\* appended on every call.
UpsertStyleNoLookup(d, el, cssText) ==
    Doc([d.hosts EXCEPT ![el].children = Append(@, Node(d.nextNid, STYLE_ID, cssText))],
        d.nextNid + 1, d.attachCalls)

\* UpsertStyle that sets the text only of a node it created.
UpsertStyleKeepsText(d, el, cssText) ==
    LET children == d.hosts[el].children
        found == GetElementById(children, STYLE_ID)
    IN IF found = 0
       THEN Doc([d.hosts EXCEPT ![el].children =
                    Append(children, Node(d.nextNid, STYLE_ID, cssText))],
                d.nextNid + 1, d.attachCalls)
       ELSE d

\* UpsertStyle that replaces the style node it finds by a new one.
UpsertStyleRecreates(d, el, cssText) ==
    LET children == d.hosts[el].children
        found == GetElementById(children, STYLE_ID)
        others == SelectSeq(children, LAMBDA c : c.id # STYLE_ID)
    IN Doc([d.hosts EXCEPT ![el].children =
               Append(IF found = 0 THEN children ELSE others,
                      Node(d.nextNid, STYLE_ID, cssText))],
           d.nextNid + 1, d.attachCalls)

\* UpsertStyle that empties the root and puts a new style node into it.
UpsertStyleReplacesChildren(d, el, cssText) ==
    Doc([d.hosts EXCEPT ![el].children = <<Node(d.nextNid, STYLE_ID, cssText)>>],
        d.nextNid + 1, d.attachCalls)

\* Lines 66-72: look the style node up by id, create and append it when it is
\* missing, then set its text.
UpsertStyle(d, el, cssText) ==
    LET children == d.hosts[el].children
        found == GetElementById(children, STYLE_ID)
        withStyle == IF found = 0
                     THEN Append(children, Node(d.nextNid, STYLE_ID, ""))
                     ELSE children
        j == IF found = 0 THEN Len(withStyle) ELSE found
    IN Doc([d.hosts EXCEPT ![el].children = SetTextContent(withStyle, j, cssText)],
           IF found = 0 THEN d.nextNid + 1 ELSE d.nextNid,
           d.attachCalls)

\* Lines 62-75: the host exposes a shadow root.
UseExistingRoot(d, hostId, el, cssText) ==
    Outcome(UpsertStyle(d, el, cssText), OkRecord(hostId, "existing-open-shadowRoot"))

\* Lines 79-91: attachShadow is a function; call it, and on success put a new
\* style node into the new root; on a throw record attach-failed.
TryAttachShadow(d, hostId, el, cssText) ==
    LET called == [d.attachCalls EXCEPT ![el] = @ + 1]
    IN IF AttachShadowThrows(d.hosts, el)
       THEN Outcome(Doc(d.hosts, d.nextNid, called), FailRecord(hostId, "attach-failed"))
       ELSE Outcome(Doc([d.hosts EXCEPT ![el].mode = "open",
                                        ![el].children = <<Node(d.nextNid, STYLE_ID, cssText)>>],
                        d.nextNid + 1, called),
                    OkRecord(hostId, "attached-new-open-shadowRoot"))

\* ProcessHost without the test of line 62: it goes for attachShadow
\* whether or not the host exposes a root.
ProcessHostNoRootCheck(d, hostId, hostEl, cssText) ==
    IF hostEl = Null
    THEN Outcome(d, FailRecord(hostId, "host-not-found"))
    ELSE IF HasAttachShadow(d.hosts, hostEl)
    THEN TryAttachShadow(d, hostId, hostEl, cssText)
    ELSE Outcome(d, FailRecord(hostId, "closed-or-no-attach"))

\* Lines 55-95: everything the loop body does with the looked-up element.
ProcessHost(d, hostId, hostEl, cssText) ==
    IF hostEl = Null
    THEN Outcome(d, FailRecord(hostId, "host-not-found"))
    ELSE IF ShadowRoot(d.hosts, hostEl) # Null
    THEN UseExistingRoot(d, hostId, hostEl, cssText)
    ELSE IF HasAttachShadow(d.hosts, hostEl)
    THEN TryAttachShadow(d, hostId, hostEl, cssText)
    ELSE Outcome(d, FailRecord(hostId, "closed-or-no-attach"))

\* The rejected wait without the try/catch of lines 47-53.
RejectedNotCaught(d, hostId) == Uncaught(d)

\* Lines 49-52: the catch of a rejected wait.
CatchRejected(d, hostId) == Outcome(d, FailRecord(hostId, "host-not-found"))

\* wait = false: the loop of lines 43-96 run from position k to the end
\* without suspension; results is the list built so far, lookups the number
\* of document.querySelector calls line 48 makes. An uncaught exception ends
\* the loop and rejects the call.
RECURSIVE NoWaitLoop(_, _, _, _)
NoWaitLoop(d, k, cssText, results) ==
    IF k > Len(HOST_IDS)
    THEN [hosts |-> d.hosts, nextNid |-> d.nextNid, attachCalls |-> d.attachCalls,
          results |-> results, status |-> "done", lookups |-> 0]
    ELSE LET o == ProcessHost(d, HOST_IDS[k], QuerySelector(d.hosts, HOST_IDS[k]), cssText)
         IN IF o.thrown
            THEN [hosts |-> o.hosts, nextNid |-> o.nextNid, attachCalls |-> o.attachCalls,
                  results |-> results, status |-> "rejected", lookups |-> 1]
            ELSE [NoWaitLoop(Doc(o.hosts, o.nextNid, o.attachCalls), k + 1, cssText,
                             Append(results, o.rec))
                    EXCEPT !.lookups = @ + 1]

\* ----------------------------------------------------------- waitForElement
\* One call of waitForElement: its promise ("none" before the call,
\* "pending", "resolved", "rejected") and the value it resolved with, its
\* mutation observer ("none", "connected", "disconnected"), its timer
\* ("none", "pending", "fired"), the calls of observer.disconnect() made, and
\* whether the page inserted a matching element while the wait was pending.
NoWait ==
    [promise |-> "none", value |-> Null, observer |-> "none", timer |-> "none",
     disconnects |-> 0, inserted |-> FALSE]

\* resolve(v) and reject(err) of a promise: only the first call settles it.
Resolve(w, v) ==
    IF w.promise = "pending" THEN [w EXCEPT !.promise = "resolved", !.value = v] ELSE w

Reject(w) ==
    IF w.promise = "pending" THEN [w EXCEPT !.promise = "rejected"] ELSE w

\* observer.disconnect()
Disconnect(w) == [w EXCEPT !.observer = "disconnected", !.disconnects = @ + 1]

\* The executor without the lookup of lines 16-17: it always observes.
WaitForElementNoLookup(hs, hostId, timeout) ==
    [NoWait EXCEPT !.promise = "pending",
                   !.observer = "connected",
                   !.timer = IF timeout > 0 THEN "pending" ELSE "none"]

\* The executor with the test of line 31 inverted: no timer for a positive
\* timeout.
WaitForElementNoTimer(hs, hostId, timeout) ==
    LET el == QuerySelector(hs, hostId)
    IN IF el # Null
       THEN [NoWait EXCEPT !.promise = "resolved", !.value = el]
       ELSE [NoWait EXCEPT !.promise = "pending",
                           !.observer = "connected",
                           !.timer = IF timeout > 0 THEN "none" ELSE "pending"]

\* Lines 15-37: the promise executor, run synchronously by the call.
WaitForElement(hs, hostId, timeout) ==
    LET el == QuerySelector(hs, hostId)
    IN IF el # Null
       THEN [NoWait EXCEPT !.promise = "resolved", !.value = el]
       ELSE [NoWait EXCEPT !.promise = "pending",
                           !.observer = "connected",
                           !.timer = IF timeout > 0 THEN "pending" ELSE "none"]

\* The callback without the disconnect of line 22.
ObserverCallbackNoDisconnect(hs, w, hostId) ==
    LET found == QuerySelector(hs, hostId)
    IN IF found # Null THEN Resolve(w, found) ELSE w

\* Lines 19-25: the mutation observer's callback.
ObserverCallback(hs, w, hostId) ==
    LET found == QuerySelector(hs, hostId)
    IN IF found # Null THEN Resolve(Disconnect(w), found) ELSE w

\* The timer's callback without the disconnect of line 33.
TimerCallbackNoDisconnect(w) == Reject([w EXCEPT !.timer = "fired"])

\* Lines 32-35: the timer's callback.
TimerCallback(w) == Reject(Disconnect([w EXCEPT !.timer = "fired"]))

\* ------------------------------------------------------------ event loop
ResumeTask(i, k) == [kind |-> "resume", inv |-> i, pos |-> k]
ObserverTask(i, k) == [kind |-> "observer", inv |-> i, pos |-> k]

Queued(q, t) == \E j \in DOMAIN q : q[j] = t

\* The continuation of `await` (line 48) is queued when the awaited promise
\* is settled: at once for a settled promise, at settlement otherwise.
QueueResume(q, before, after, i, k) ==
    IF before.promise \in {"none", "pending"} /\ after.promise \in {"resolved", "rejected"}
    THEN Append(q, ResumeTask(i, k))
    ELSE q

\* An invocation: "idle" before the call, "suspended" at the await of line
\* 48 for position pos, "done" once it returned its results (its promise is
\* resolved with them), "rejected" if an exception left the function.
\* lookups counts the direct document.querySelector calls of line 48.
IdleInvocation ==
    [status |-> "idle", cssText |-> "", wait |-> FALSE, waitTimeout |-> 0,
     pos |-> 0, results |-> <<>>, lookups |-> 0]

TypeOK ==
    /\ DOMAIN hosts = Hosts
    /\ \A h \in Hosts :
        /\ hosts[h].inDoc \in BOOLEAN
        /\ hosts[h].mode \in {"none", "open", "closed"}
        /\ hosts[h].attach \in {"ok", "throws", "nofn"}
    /\ nextNid \in Nat
    /\ \A h \in Hosts : attachCalls[h] \in Nat
    /\ \A i \in Invocations :
        /\ inv[i].status \in {"idle", "suspended", "done", "rejected"}
        /\ startedAfter[i] \subseteq Invocations
        /\ inv[i].pos \in 0..Len(HOST_IDS)
        /\ Len(inv[i].results) <= Len(HOST_IDS)
        /\ inv[i].lookups \in 0..Len(HOST_IDS)
        /\ \A k \in Positions :
            /\ waits[i][k].promise \in {"none", "pending", "resolved", "rejected"}
            /\ waits[i][k].observer \in {"none", "connected", "disconnected"}
            /\ waits[i][k].timer \in {"none", "pending", "fired"}
    /\ \A j \in DOMAIN microtasks : microtasks[j].kind \in {"resume", "observer"}
    /\ \A h \in Hosts : presence[h] \in {"initial", "inserted", "removed"}
    /\ \A h \in Hosts : lastUpsert[h] \in 0..NumInvocations
    /\ mutations \in 0..MaxMutations

Init ==
    /\ hosts \in {hs \in [Hosts -> InitialHosts(0) \cup InitialHosts(2)] :
                    /\ hs[HostA] \in InitialHosts(0)
                    /\ hs[HostB] \in InitialHosts(2)}
    /\ nextNid = 5
    /\ attachCalls = [h \in Hosts |-> 0]
    /\ inv = [i \in Invocations |-> IdleInvocation]
    /\ waits = [i \in Invocations |-> [k \in Positions |-> NoWait]]
    /\ microtasks = <<>>
    /\ presence = [h \in Hosts |-> "initial"]
    /\ mutations = 0
    /\ startedAfter = [i \in Invocations |-> {}]
    /\ lastUpsert = [h \in Hosts |-> 0]

\* The invocation that ran the last upsert on each host, once invocation i
\* has pushed the records recs (lines 72-73 and 83-85 push a success record
\* right after they set the text).
UpsertsBy(lu, i, recs) ==
    [h \in Hosts |->
        IF \E j \in DOMAIN recs : recs[j].hostId = h /\ recs[j].ok THEN i ELSE lu[h]]

\* The texts a call may pass. The code never compares or inspects a text, so
\* the first call's text is fixed and the later ones are equal to it or not.
CssChoices(i) == IF i = 1 THEN {"cssA"} ELSE CssTexts

\* Invoke without the test of `wait` in line 48: the call awaits
\* waitForElement whatever the option says.
InvokeAlwaysWaits(i, cssText, opt) ==
    /\ inv[i].status = "idle"
    /\ \A j \in Invocations : j < i => inv[j].status # "idle"
    /\ startedAfter' =
          [startedAfter EXCEPT ![i] = {j \in Invocations : inv[j].status \in {"done", "rejected"}}]
    /\ LET w == WaitForElement(hosts, HOST_IDS[1], opt.waitTimeout)
       IN /\ waits' = [waits EXCEPT ![i][1] = w]
          /\ microtasks' = QueueResume(microtasks, NoWait, w, i, 1)
          /\ inv' = [inv EXCEPT ![i] =
                        [status |-> "suspended", cssText |-> cssText,
                         wait |-> opt.wait, waitTimeout |-> opt.waitTimeout,
                         pos |-> 1, results |-> <<>>, lookups |-> 0]]
          /\ UNCHANGED <<hosts, nextNid, attachCalls>>
          /\ UNCHANGED <<presence, mutations, lastUpsert>>

\* Invoke with a parallel fan-out: with wait = true the call starts the waits
\* of all identifiers at once and suspends on the first.
InvokeFanOut(i, cssText, opt) ==
    /\ inv[i].status = "idle"
    /\ \A j \in Invocations : j < i => inv[j].status # "idle"
    /\ startedAfter' =
          [startedAfter EXCEPT ![i] = {j \in Invocations : inv[j].status \in {"done", "rejected"}}]
    /\ IF opt.wait
       THEN LET ws == [k \in Positions |-> WaitForElement(hosts, HOST_IDS[k], opt.waitTimeout)]
            IN /\ waits' = [waits EXCEPT ![i] = ws]
               /\ microtasks' = QueueResume(microtasks, NoWait, ws[1], i, 1)
               /\ inv' = [inv EXCEPT ![i] =
                             [status |-> "suspended", cssText |-> cssText,
                              wait |-> opt.wait, waitTimeout |-> opt.waitTimeout,
                              pos |-> 1, results |-> <<>>, lookups |-> 0]]
               /\ UNCHANGED <<hosts, nextNid, attachCalls>>
               /\ UNCHANGED <<presence, mutations, lastUpsert>>
       ELSE LET r == NoWaitLoop(Doc(hosts, nextNid, attachCalls), 1, cssText, <<>>)
            IN /\ hosts' = r.hosts
               /\ nextNid' = r.nextNid
               /\ attachCalls' = r.attachCalls
               /\ inv' = [inv EXCEPT ![i] =
                             [status |-> r.status, cssText |-> cssText,
                              wait |-> opt.wait, waitTimeout |-> opt.waitTimeout,
                              pos |-> Len(HOST_IDS), results |-> r.results,
                              lookups |-> r.lookups]]
               /\ lastUpsert' = UpsertsBy(lastUpsert, i, r.results)
               /\ UNCHANGED <<waits, microtasks, presence, mutations>>

\* injectCssIntoPlasmoHost(cssText, opt), lines 40-48: with wait = false the
\* whole loop runs at once; otherwise the call runs to its first await.
Invoke(i, cssText, opt) ==
    /\ inv[i].status = "idle"
    /\ \A j \in Invocations : j < i => inv[j].status # "idle"
    /\ startedAfter' =
          [startedAfter EXCEPT ![i] = {j \in Invocations : inv[j].status \in {"done", "rejected"}}]
    /\ IF opt.wait
       THEN LET w == WaitForElement(hosts, HOST_IDS[1], opt.waitTimeout)
            IN /\ waits' = [waits EXCEPT ![i][1] = w]
               /\ microtasks' = QueueResume(microtasks, NoWait, w, i, 1)
               /\ inv' = [inv EXCEPT ![i] =
                             [status |-> "suspended", cssText |-> cssText,
                              wait |-> opt.wait, waitTimeout |-> opt.waitTimeout,
                              pos |-> 1, results |-> <<>>, lookups |-> 0]]
               /\ UNCHANGED <<hosts, nextNid, attachCalls>>
               /\ UNCHANGED <<presence, mutations, lastUpsert>>
       ELSE LET r == NoWaitLoop(Doc(hosts, nextNid, attachCalls), 1, cssText, <<>>)
            IN /\ hosts' = r.hosts
               /\ nextNid' = r.nextNid
               /\ attachCalls' = r.attachCalls
               /\ inv' = [inv EXCEPT ![i] =
                             [status |-> r.status, cssText |-> cssText,
                              wait |-> opt.wait, waitTimeout |-> opt.waitTimeout,
                              pos |-> Len(HOST_IDS), results |-> r.results,
                              lookups |-> r.lookups]]
               /\ lastUpsert' = UpsertsBy(lastUpsert, i, r.results)
               /\ UNCHANGED <<waits, microtasks, presence, mutations>>

\* The continuation after the await of line 48 for position k: lines 49-95
\* for that position, then either the return of line 98 or the next
\* iteration up to its own await.
Resume ==
    /\ microtasks # <<>>
    /\ Head(microtasks).kind = "resume"
    /\ LET i == Head(microtasks).inv
           k == Head(microtasks).pos
           w == waits[i][k]
           d == Doc(hosts, nextNid, attachCalls)
           o == IF w.promise = "resolved"
                THEN ProcessHost(d, HOST_IDS[k], w.value, inv[i].cssText)
                ELSE CatchRejected(d, HOST_IDS[k])
           results == Append(inv[i].results, o.rec)
       IN /\ hosts' = o.hosts
          /\ nextNid' = o.nextNid
          /\ attachCalls' = o.attachCalls
          /\ lastUpsert' = IF o.thrown THEN lastUpsert ELSE UpsertsBy(lastUpsert, i, <<o.rec>>)
          /\ IF o.thrown
             THEN /\ inv' = [inv EXCEPT ![i].status = "rejected"]
                  /\ microtasks' = Tail(microtasks)
                  /\ UNCHANGED waits
             ELSE IF k = Len(HOST_IDS)
             THEN /\ inv' = [inv EXCEPT ![i].status = "done", ![i].results = results]
                  /\ microtasks' = Tail(microtasks)
                  /\ UNCHANGED waits
             ELSE LET nw == WaitForElement(o.hosts, HOST_IDS[k + 1], inv[i].waitTimeout)
                  IN /\ inv' = [inv EXCEPT ![i].pos = k + 1, ![i].results = results]
                     /\ waits' = [waits EXCEPT ![i][k + 1] = nw]
                     /\ microtasks' = QueueResume(Tail(microtasks), NoWait, nw, i, k + 1)
    /\ UNCHANGED <<presence, mutations, startedAfter>>

\* The microtask that delivers mutation records to one observer (line 19).
\* disconnect() empties the observer's record queue, so a disconnected
\* observer is not called.
NotifyObserver ==
    /\ microtasks # <<>>
    /\ Head(microtasks).kind = "observer"
    /\ LET i == Head(microtasks).inv
           k == Head(microtasks).pos
           w == waits[i][k]
           nw == IF w.observer = "connected"
                 THEN ObserverCallback(hosts, w, HOST_IDS[k])
                 ELSE w
       IN /\ waits' = [waits EXCEPT ![i][k] = nw]
          /\ microtasks' = QueueResume(Tail(microtasks), w, nw, i, k)
    /\ UNCHANGED <<hosts, nextNid, attachCalls, inv, presence, mutations, startedAfter,
                   lastUpsert>>

\* The timer task of lines 32-35. A task starts only after the microtask
\* queue has drained.
TimerFire(i, k) ==
    /\ microtasks = <<>>
    /\ waits[i][k].timer = "pending"
    /\ LET nw == TimerCallback(waits[i][k])
       IN /\ waits' = [waits EXCEPT ![i][k] = nw]
          /\ microtasks' = QueueResume(microtasks, waits[i][k], nw, i, k)
    /\ UNCHANGED <<hosts, nextNid, attachCalls, inv, presence, mutations, startedAfter,
                   lastUpsert>>

\* The connected observers that have no delivery pending, in some order.
ToNotify(q) ==
    {<<i, k>> \in Invocations \X Positions :
        waits[i][k].observer = "connected" /\ ~Queued(q, ObserverTask(i, k))}

Orders(S) ==
    {o \in [1..Cardinality(S) -> S] : \A a, b \in 1..Cardinality(S) : a # b => o[a] # o[b]}

\* The page inserts the element of host h into the document: a childList
\* mutation under documentElement, observed by every connected observer
\* (lines 26-29).
InsertHost(h) ==
    /\ mutations < MaxMutations
    /\ ~hosts[h].inDoc
    /\ hosts' = [hosts EXCEPT ![h].inDoc = TRUE]
    /\ waits' = [i \in Invocations |-> [k \in Positions |->
                    IF HOST_IDS[k] = h /\ waits[i][k].promise = "pending"
                    THEN [waits[i][k] EXCEPT !.inserted = TRUE]
                    ELSE waits[i][k]]]
    /\ presence' = [presence EXCEPT ![h] = IF @ = "initial" THEN "inserted" ELSE @]
    /\ mutations' = mutations + 1
    /\ \E o \in Orders(ToNotify(microtasks)) :
          microtasks' = microtasks \o [j \in DOMAIN o |-> ObserverTask(o[j][1], o[j][2])]
    /\ UNCHANGED <<nextNid, attachCalls, inv, startedAfter, lastUpsert>>

\* The page removes the element of host h from the document: a childList
\* mutation too. The element keeps its shadow tree.
RemoveHost(h) ==
    /\ mutations < MaxMutations
    /\ hosts[h].inDoc
    /\ hosts' = [hosts EXCEPT ![h].inDoc = FALSE]
    /\ presence' = [presence EXCEPT ![h] = "removed"]
    /\ mutations' = mutations + 1
    /\ \E o \in Orders(ToNotify(microtasks)) :
          microtasks' = microtasks \o [j \in DOMAIN o |-> ObserverTask(o[j][1], o[j][2])]
    /\ UNCHANGED <<nextNid, attachCalls, inv, waits, startedAfter, lastUpsert>>

Next ==
    \/ \E i \in Invocations, opt \in OptionRecords : \E c \in CssChoices(i) : Invoke(i, c, opt)
    \/ Resume
    \/ NotifyObserver
    \/ \E i \in Invocations, k \in Positions : TimerFire(i, k)
    \/ \E h \in Hosts : InsertHost(h)
    \/ \E h \in Hosts : RemoveHost(h)

Spec == Init /\ [][Next]_vars

\* The event loop runs every queued microtask and fires every pending timer;
\* nothing obliges a caller to call or the page to change the document.
\* A timer fires once, so fairness to the timers as a whole is fairness to
\* each of them.
RunMicrotask == Resume \/ NotifyObserver
FireTimer == \E i \in Invocations, k \in Positions : TimerFire(i, k)

Fairness == WF_vars(RunMicrotask) /\ WF_vars(FireTimer)

\* Whether an invocation resolves depends on its options and on when hosts
\* are in the document, not on what their shadow roots hold: the fair
\* behaviours start from hosts with an open root or, for the host listed
\* twice, with none.
LiveHosts(base) ==
    {e \in InitialHosts(base) : e.attach = "ok" /\ e.mode # "closed" /\ Len(e.children) <= 1}

LiveInit ==
    /\ Init
    /\ hosts[HostA] \in LiveHosts(0)
    /\ hosts[HostB] \in {e \in LiveHosts(2) : e.mode = "open"}

FairSpec == LiveInit /\ [][Next]_vars /\ Fairness

\* ------------------------------------------------------------------ claims
StyleNodes(h) == {j \in DOMAIN hosts[h].children : hosts[h].children[j].id = STYLE_ID}

Results(i) == inv[i].results

Reasons == {"host-not-found", "attach-failed", "closed-or-no-attach"}
Modes == {"existing-open-shadowRoot", "attached-new-open-shadowRoot"}

IsFailure(r, reason) == ~r.ok /\ r.reason = reason
IsSuccess(r, used) == r.ok /\ r.used = used

\* C1: every shadow root holds at most one node with id
\* 'my-custom-shadow-style', in every reachable state.
C1_AtMostOneStyleNode == \A h \in Hosts : Cardinality(StyleNodes(h)) <= 1

\* C1 witness: a root created by attachShadow has been upserted again by
\* every invocation and still holds one style node.
C1_Witness ==
    \E h \in Hosts :
        /\ attachCalls[h] = 1
        /\ Cardinality(StyleNodes(h)) = 1
        /\ \A i \in Invocations :
            /\ inv[i].status = "done"
            /\ \E k \in DOMAIN Results(i) :
                  Results(i)[k].hostId = h /\ IsSuccess(Results(i)[k], "existing-open-shadowRoot")

\* C2: an invocation never rejects, and one that completed holds exactly one
\* well-formed record per entry of HOST_IDS, in the order of HOST_IDS,
\* whatever the records before it are.
C2_OneRecordPerEntry ==
    \A i \in Invocations :
        /\ inv[i].status # "rejected"
        /\ inv[i].status = "done" =>
            /\ Len(Results(i)) = Len(HOST_IDS)
            /\ \A k \in DOMAIN Results(i) :
                /\ Results(i)[k].hostId = HOST_IDS[k]
                /\ IF Results(i)[k].ok
                   THEN Results(i)[k].used \in Modes
                   ELSE Results(i)[k].reason \in Reasons

\* C2 witness: a completed invocation whose first record is a rejected wait
\* turned into host-not-found, followed by a failed attach and a success.
C2_Witness ==
    \E i \in Invocations :
        /\ inv[i].status = "done"
        /\ inv[i].wait
        /\ waits[i][1].promise = "rejected"
        /\ IsFailure(Results(i)[1], "host-not-found")
        /\ IsFailure(Results(i)[2], "attach-failed")
        /\ Results(i)[3].ok

\* A record that was produced from an element, not from a failed lookup.
HostWasFound(r) == ~IsFailure(r, "host-not-found")

\* C4: the record of a host with a closed shadow root is always
\* {ok: false, reason: 'closed-or-no-attach'}.
C4_ClosedRootRecord ==
    \A i \in Invocations : \A k \in DOMAIN Results(i) :
        (hosts[HOST_IDS[k]].mode = "closed" /\ HostWasFound(Results(i)[k]))
            => IsFailure(Results(i)[k], "closed-or-no-attach")

\* C5: attachShadow is never called on a host with a closed shadow root, and
\* its shadow tree stays as it was: no style node is created for it.
C5_ClosedHostUntouched ==
    \A h \in Hosts :
        hosts[h].mode = "closed" =>
            /\ attachCalls[h] = 0
            /\ StyleNodes(h) = {}
            /\ Len(hosts[h].children) = 1

\* ------------------------------------------------------- claims C6, C7, C8
Settled(w) == w.promise \in {"resolved", "rejected"}

\* The waitForElement calls made with timeout > 0.
TimedWaits ==
    {<<i, k>> \in Invocations \X Positions :
        inv[i].wait /\ inv[i].waitTimeout > 0 /\ waits[i][k].promise # "none"}

\* The waitForElement calls that installed a mutation observer.
ObservedWaits ==
    {<<i, k>> \in Invocations \X Positions : waits[i][k].observer # "none"}

IsPrefix(a, b) == Len(a) <= Len(b) /\ \A j \in DOMAIN a : a[j] = b[j]

\* C6 as stated: a timed wait during which a matching element was inserted
\* (before its timer fired) resolves with that element, it does not reject.
C6_InsertedBeforeTimerResolves ==
    \A <<i, k>> \in TimedWaits :
        waits[i][k].inserted => waits[i][k].promise # "rejected"

C6_State ==
    \A <<i, k>> \in TimedWaits :
        LET w == waits[i][k]
        IN \* an element present at call time or at the delivery of an
           \* insertion resolves the wait: a pending wait whose element is in
           \* the document has that delivery queued, ahead of any timer
           /\ (w.promise = "pending" /\ hosts[HOST_IDS[k]].inDoc)
                 => (Queued(microtasks, ObserverTask(i, k)) /\ w.timer = "pending")
           /\ w.promise = "resolved" => w.value = HOST_IDS[k]
           \* the timer decides only when it fires first
           /\ w.promise = "rejected" => w.timer = "fired"
           \* the record follows the outcome, and exists only after it
           /\ k \in DOMAIN Results(i) =>
                 /\ Settled(w)
                 /\ IsFailure(Results(i)[k], "host-not-found") <=> w.promise = "rejected"

C6_Step ==
    /\ \A i \in Invocations : IsPrefix(Results(i), inv'[i].results)
    /\ \A <<i, k>> \in TimedWaits :
        LET w == waits[i][k]
            nw == waits'[i][k]
        IN /\ Settled(w) => (nw.promise = w.promise /\ nw.value = w.value)
           /\ (w.promise = "pending" /\ nw.promise = "rejected")
                 => (~hosts[HOST_IDS[k]].inDoc /\ w.timer = "pending" /\ nw.timer = "fired")
           /\ (w.promise = "pending" /\ nw.promise = "resolved")
                 => (hosts[HOST_IDS[k]].inDoc /\ w.timer = "pending" /\ nw.timer = "pending")

\* C6 (amended): a timed wait settles once and for all; it resolves with the
\* element when the element is in the document at call time or when the
\* observer's callback runs after an insertion, which happens before any timer
\* task; it rejects only when its timer fires with no such element, the
\* host-not-found record is appended only after that, and neither a later
\* timer nor a later insertion changes an outcome or a record.
C6_FirstEventDecides == []C6_State /\ [][C6_Step]_vars

\* C6 witness: one wait was resolved by an insertion and its timer fired
\* later, another was rejected by its timer and its host inserted later.
C6_Witness ==
    \E i \in Invocations :
        /\ Len(Results(i)) >= 2
        /\ waits[i][1].promise = "resolved" /\ waits[i][1].observer = "disconnected"
        /\ waits[i][1].timer = "fired"
        /\ Results(i)[1].ok
        /\ waits[i][2].promise = "rejected"
        /\ IsFailure(Results(i)[2], "host-not-found")
        /\ hosts[HOST_IDS[2]].inDoc

\* C7 as stated: disconnect is performed once per observer over the whole
\* run, at the first of (match, timeout), and not again afterwards.
C7_DisconnectOnce ==
    \A <<i, k>> \in ObservedWaits :
        waits[i][k].disconnects = IF Settled(waits[i][k]) THEN 1 ELSE 0

C7_State ==
    \A <<i, k>> \in ObservedWaits :
        LET w == waits[i][k]
        IN /\ w.promise = "pending" => (w.observer = "connected" /\ w.disconnects = 0)
           /\ Settled(w) =>
                 /\ w.observer = "disconnected"
                 /\ w.disconnects = IF w.promise = "resolved" /\ w.timer = "fired" THEN 2 ELSE 1

C7_Step ==
    \A <<i, k>> \in ObservedWaits :
        /\ waits[i][k].observer = "disconnected" => waits'[i][k].observer = "disconnected"
        /\ (waits[i][k].observer = "connected" /\ waits'[i][k].observer = "disconnected")
              => (waits[i][k].promise = "pending" /\ Settled(waits'[i][k]))

\* C7 (amended): an observer goes from connected to disconnected once, in the
\* step of the first of (match found, timeout fired), and stays disconnected;
\* disconnect() is called once then, and a second time, on the already
\* disconnected observer, only when the timer fires after a match.
C7_RemovedOnce == []C7_State /\ [][C7_Step]_vars

\* C7 witness: an observer disconnected by a match whose timer fired later,
\* and one disconnected by its timer.
C7_Witness ==
    \E i \in Invocations :
        /\ waits[i][1].promise = "resolved" /\ waits[i][1].disconnects = 2
        /\ waits[i][2].promise = "rejected" /\ waits[i][2].disconnects = 1

\* C8: an observer is connected only while its wait is unsettled, and a
\* settled invocation has left no observer connected.
C8_NoLeakedObserver ==
    \A i \in Invocations : \A k \in Positions :
        /\ waits[i][k].observer = "connected" => waits[i][k].promise = "pending"
        /\ Settled(waits[i][k]) => waits[i][k].observer # "connected"
        /\ inv[i].status \in {"done", "rejected"} => waits[i][k].observer # "connected"

\* C8 witness: a resolved invocation one of whose observers was torn down by
\* a match and another by a timeout.
C8_Witness ==
    \E i \in Invocations :
        /\ inv[i].status = "done"
        /\ \E k \in Positions :
              waits[i][k].observer = "disconnected" /\ waits[i][k].promise = "resolved"
        /\ \E k \in Positions :
              waits[i][k].observer = "disconnected" /\ waits[i][k].promise = "rejected"

\* ---------------------------------------------------------------- claim C3
Called(i) == inv[i].status # "idle"
Resolved(i) == inv[i].status = "done"

\* C3 as stated: every invocation, whatever its options and whatever the
\* document does, eventually resolves with its result list.
C3_AlwaysResolves == \A i \in Invocations : Called(i) ~> Resolved(i)

\* C3 (amended): every invocation with wait = false or waitTimeout > 0
\* eventually resolves with its result list, whatever the document does and
\* even when every identifier fails.
C3_ResolvesUnlessUntimedWait ==
    \A i \in Invocations :
        (Called(i) /\ (~inv[i].wait \/ inv[i].waitTimeout > 0)) ~> Resolved(i)

\* C3 witness: a waiting invocation resolved with three failures after its
\* timers fired.
C3_Witness ==
    \E i \in Invocations :
        /\ Resolved(i) /\ inv[i].wait /\ inv[i].waitTimeout > 0
        /\ \A k \in Positions :
              waits[i][k].timer = "fired" /\ IsFailure(Results(i)[k], "host-not-found")

\* ----------------------------------------------------------- claims C9, C10
\* The host has been in the document ever since the script was loaded.
AlwaysPresent(h) == hosts[h].inDoc /\ presence[h] = "initial"

\* The host had an open shadow root before any invocation.
OpenFromStart(h) == hosts[h].mode = "open" /\ attachCalls[h] = 0

\* The host had no shadow root before any invocation and allows attaching one.
AttachableFromStart(h) ==
    /\ hosts[h].attach = "ok"
    /\ \/ hosts[h].mode = "none"
       \/ hosts[h].mode = "open" /\ attachCalls[h] > 0

\* Invocation j was called after invocation i had resolved.
Successive(i, j) == i # j /\ i \in startedAfter[j] /\ inv[i].status = "done"

\* Every call made so far passed the text c.
OnlyText(c) == \A m \in Invocations : Called(m) => inv[m].cssText = c

\* Invocation j was called after every other call made so far had settled.
LastCall(j) == \A m \in Invocations : (m # j /\ Called(m)) => m \in startedAfter[j]

RecordsOf(i, h) == {k \in DOMAIN Results(i) : Results(i)[k].hostId = h}

StyleTexts(h) == {hosts[h].children[n].text : n \in StyleNodes(h)}
StyleNids(h) == {hosts[h].children[n].nid : n \in StyleNodes(h)}

C9_State ==
    \A i, j \in Invocations : \A h \in Hosts :
        ( /\ Successive(i, j) /\ inv[j].status = "done"
          /\ OnlyText(inv[i].cssText)
          /\ AlwaysPresent(h) /\ OpenFromStart(h) )
        => /\ Cardinality(StyleNodes(h)) = 1
           /\ StyleTexts(h) = {inv[j].cssText}
           /\ \A k \in RecordsOf(j, h) : IsSuccess(Results(j)[k], "existing-open-shadowRoot")

C9_Step ==
    \A i, j \in Invocations : \A h \in Hosts :
        ( /\ Successive(i, j)' /\ inv'[j] # inv[j]
          /\ OnlyText(inv[i].cssText)'
          /\ AlwaysPresent(h) /\ OpenFromStart(h) )
        => hosts'[h] = hosts[h]

\* C9: for a host present with an open shadow root, the second of two
\* successive invocations with the same text leaves one style node with that
\* text, reports existing-open-shadowRoot in every record of the host, and
\* none of its steps changes the shadow root the first invocation left.
C9_Idempotent == []C9_State /\ [][C9_Step]_vars

\* C9 witness: the second of two successive waiting invocations with the same
\* text has resolved on a host that was present with an open root holding an
\* older style node.
C9_Witness ==
    \E h \in Hosts :
        /\ Successive(1, 2) /\ inv[2].status = "done" /\ inv[2].wait
        /\ inv[2].cssText = inv[1].cssText
        /\ AlwaysPresent(h) /\ OpenFromStart(h)
        /\ Len(hosts[h].children) = 2
        /\ Cardinality(RecordsOf(2, h)) = 2

\* Invocation i was called first and had resolved before any other call.
FirstCall(i) ==
    /\ inv[i].status = "done" /\ startedAfter[i] = {}
    /\ \A m \in Invocations : (m # i /\ Called(m)) => i \in startedAfter[m]

\* C10 as stated: every record of the first invocation for a host that had no
\* shadow root has mode attached-new-open-shadowRoot.
C10_EveryRecordAttachedNew ==
    \A i \in Invocations : \A h \in Hosts :
        (FirstCall(i) /\ AlwaysPresent(h) /\ AttachableFromStart(h))
        => \A k \in RecordsOf(i, h) :
              IsSuccess(Results(i)[k], "attached-new-open-shadowRoot")

C10_State ==
    \A i \in Invocations : \A h \in Hosts :
        (FirstCall(i) /\ AlwaysPresent(h) /\ AttachableFromStart(h))
        => /\ \A k \in RecordsOf(i, h) :
                 IsSuccess(Results(i)[k],
                           IF \E m \in RecordsOf(i, h) : m < k
                           THEN "existing-open-shadowRoot"
                           ELSE "attached-new-open-shadowRoot")
           /\ attachCalls[h] = 1
           /\ Cardinality(StyleNodes(h)) = 1 /\ Len(hosts[h].children) = 1
           /\ \A j \in Invocations :
                 (Successive(i, j) /\ LastCall(j) /\ inv[j].status = "done")
                 => /\ \A k \in RecordsOf(j, h) :
                          IsSuccess(Results(j)[k], "existing-open-shadowRoot")
                    /\ StyleTexts(h) = {inv[j].cssText}

C10_Step ==
    \A h \in Hosts :
        (AttachableFromStart(h) /\ StyleNodes(h) # {}) => StyleNids(h)' = StyleNids(h)

\* C10 (amended): for a host present without a shadow root that allows
\* attaching one, the first record of the first invocation for that host has
\* mode attached-new-open-shadowRoot and every later record of that invocation
\* for the same host (position 3 for the identifier listed twice) has mode
\* existing-open-shadowRoot; the invocation calls attachShadow once and
\* creates one style node; a second invocation yields existing-open-shadowRoot
\* and sets the text of that same node, which is never replaced or joined by
\* another.
C10_AttachThenReuse == []C10_State /\ [][C10_Step]_vars

\* C10 witness: after a first invocation attached the root of the host listed
\* twice, a second one with another text has rewritten the same node.
C10_Witness ==
    /\ FirstCall(1) /\ Successive(1, 2) /\ inv[2].status = "done"
    /\ inv[2].cssText # inv[1].cssText
    /\ AlwaysPresent(HostA) /\ AttachableFromStart(HostA)
    /\ IsSuccess(Results(1)[1], "attached-new-open-shadowRoot")
    /\ StyleTexts(HostA) = {inv[2].cssText}

\* ---------------------------------------------------------------- claim C11
\* Invocations i and j overlapped: neither was called after the other settled.
Concurrent(i, j) == i # j /\ i \notin startedAfter[j] /\ j \notin startedAfter[i]

HasSuccess(i, h) == \E k \in RecordsOf(i, h) : Results(i)[k].ok

\* C11: once two concurrent invocations with different texts have both
\* resolved, every host on which one of them succeeded holds exactly one style
\* node, whose text is the text of the invocation that upserted it last.
C11_LastWriteWins ==
    \A i, j \in Invocations : \A h \in Hosts :
        ( /\ Concurrent(i, j) /\ Resolved(i) /\ Resolved(j)
          /\ inv[i].cssText # inv[j].cssText
          /\ \A m \in Invocations : Called(m) => m \in {i, j}
          /\ HasSuccess(i, h) \/ HasSuccess(j, h) )
        => /\ Cardinality(StyleNodes(h)) = 1
           /\ lastUpsert[h] \in {i, j}
           /\ HasSuccess(lastUpsert[h], h)
           /\ StyleTexts(h) = {inv[lastUpsert[h]].cssText}

\* C11 witness: two concurrent invocations with different texts both
\* succeeded on the same host, and the one called first wrote last.
C11_Witness ==
    \E h \in Hosts :
        /\ Concurrent(1, 2) /\ Resolved(1) /\ Resolved(2)
        /\ inv[1].cssText # inv[2].cssText
        /\ HasSuccess(1, h) /\ HasSuccess(2, h)
        /\ lastUpsert[h] = 1
        /\ StyleTexts(h) = {inv[1].cssText}

\* ---------------------------------------------------------------- claim C12
PendingWaits(i) == {k \in Positions : waits[i][k].promise = "pending"}
ConnectedObservers(i) == {k \in Positions : waits[i][k].observer = "connected"}
StartedWaits(i) == {k \in Positions : waits[i][k].promise # "none"}

\* An invocation has at most one unsettled wait and one connected observer,
\* both of the position it is suspended at, and the wait of a position has
\* started only if the records of all positions before it are appended.
C12_State ==
    \A i \in Invocations :
        /\ Cardinality(PendingWaits(i)) <= 1
        /\ Cardinality(ConnectedObservers(i)) <= 1
        /\ PendingWaits(i) \cup ConnectedObservers(i) \subseteq {inv[i].pos}
        /\ \A k \in StartedWaits(i) : Len(Results(i)) >= k - 1

\* The step that starts the lookup of a position finds the waits of all
\* earlier positions settled and leaves exactly the earlier records appended.
C12_Step ==
    \A i \in Invocations : \A k \in Positions :
        (waits[i][k].promise = "none" /\ waits'[i][k].promise # "none")
            => /\ \A j \in 1..(k - 1) : Settled(waits[i][j])
               /\ Len(Results(i))' = k - 1
               /\ \A j \in Positions : j > k => waits'[i][j].promise = "none"

\* C12: within one invocation the identifiers are processed one at a time:
\* at most one pending wait (one connected observer, one unsettled promise),
\* and the lookup of position k+1 starts only after the record of position k
\* is appended.
C12_OneAtATime == []C12_State /\ [][C12_Step]_vars

\* C12 witness: an invocation waits with a connected observer at position 2
\* after it waited with an observer at position 1 and appended its record.
C12_Witness ==
    \E i \in Invocations :
        /\ inv[i].status = "suspended" /\ inv[i].pos = 2
        /\ PendingWaits(i) = {2} /\ ConnectedObservers(i) = {2}
        /\ waits[i][1].promise = "resolved" /\ waits[i][1].observer = "disconnected"
        /\ Len(Results(i)) = 1

\* ---------------------------------------------------------------- claim C13
\* The call of invocation i is the step taken.
CallStep(i) == inv[i].status = "idle" /\ inv'[i].status # "idle"

\* An invocation called with wait = false is complete in every state: it has
\* no wait, observer or timer and no continuation queued, and it looked each
\* entry of HOST_IDS up once.
C13_State ==
    \A i \in Invocations :
        (Called(i) /\ ~inv[i].wait)
            => /\ inv[i].status = "done"
               /\ Len(Results(i)) = Len(HOST_IDS)
               /\ inv[i].lookups = Len(HOST_IDS)
               /\ \A k \in Positions : waits[i][k] = NoWait
               /\ \A t \in DOMAIN microtasks : microtasks[t].inv # i

\* The call with wait = false computes all records in its own step from the
\* document as the call found it: nothing is queued, no host enters or
\* leaves the document, no other invocation moves, an absent host is recorded
\* host-not-found and a present host gets the record of its processing.
C13_Step ==
    \A i \in Invocations :
        (CallStep(i) /\ ~inv'[i].wait)
            => /\ inv'[i].status = "done"
               /\ waits' = waits /\ microtasks' = microtasks
               /\ \A h \in Hosts : hosts'[h].inDoc = hosts[h].inDoc
               /\ presence' = presence /\ mutations' = mutations
               /\ \A j \in Invocations : j # i => inv'[j] = inv[j]
               /\ \A k \in Positions :
                     IsFailure(Results(i)'[k], "host-not-found") <=> ~hosts[HOST_IDS[k]].inDoc

\* C13: with wait = false an invocation never suspends: no observer, no
\* timer, one lookup per identifier, and the whole result list is computed
\* against one document state with nothing interleaved; an absent host yields
\* host-not-found and a present host its result at once.
C13_NoWaitIsSynchronous == []C13_State /\ [][C13_Step]_vars

\* C13 witness: a call with wait = false made while another invocation is
\* suspended in a wait found one host absent and injected into the other.
C13_Witness ==
    \E i, j \in Invocations :
        /\ Called(i) /\ ~inv[i].wait /\ inv[i].status = "done"
        /\ inv[j].status = "suspended" /\ PendingWaits(j) # {}
        /\ \E k \in Positions : IsFailure(Results(i)[k], "host-not-found")
        /\ \E k \in Positions : Results(i)[k].ok

\* ---------------------------------------------------------------- claim C14
\* The waitForElement calls made with timeout <= 0.
UntimedWaits ==
    {<<i, k>> \in Invocations \X Positions :
        inv[i].wait /\ inv[i].waitTimeout <= 0 /\ waits[i][k].promise # "none"}

\* The step runs the delivery to the observer of wait (i, k): it takes that
\* microtask from the head of the queue.
CallbackRuns(i, k) ==
    /\ microtasks # <<>>
    /\ Head(microtasks) = ObserverTask(i, k)
    /\ microtasks' \in {Tail(microtasks), Append(Tail(microtasks), ResumeTask(i, k))}

\* C14: a wait with timeout <= 0 sets no timer, never rejects, stays pending
\* while no element matches, and is resolved once a mutation has made an
\* element match: after the insertion of its host the wait is resolved or the
\* delivery of that mutation to its observer is still to run.
C14_ResolvesOnceInserted ==
    \A <<i, k>> \in UntimedWaits :
        LET w == waits[i][k]
        IN /\ w.timer = "none"
           /\ w.promise # "rejected"
           /\ w.inserted => (w.promise = "resolved" \/ Queued(microtasks, ObserverTask(i, k)))

C14_State ==
    \A <<i, k>> \in UntimedWaits :
        LET w == waits[i][k]
        IN /\ w.timer = "none"
           /\ w.promise \in {"pending", "resolved"}
           /\ w.promise = "pending" => w.observer = "connected"
           \* a pending wait whose element is in the document has the
           \* delivery of the insertion queued
           /\ (w.promise = "pending" /\ hosts[HOST_IDS[k]].inDoc)
                 => Queued(microtasks, ObserverTask(i, k))
           /\ w.promise = "resolved"
                 => (w.value = HOST_IDS[k] /\ w.observer \in {"none", "disconnected"})
           \* a record for the position exists only after the wait resolved
           /\ k \in DOMAIN Results(i)
                 => (w.promise = "resolved" /\ HostWasFound(Results(i)[k]))

C14_Step ==
    \A <<i, k>> \in UntimedWaits :
        LET w == waits[i][k]
            nw == waits'[i][k]
        IN /\ w.promise = "resolved" => (nw.promise = "resolved" /\ nw.value = w.value)
           \* only a run of the callback that finds the element resolves
           /\ (w.promise = "pending" /\ nw.promise = "resolved")
                 => (CallbackRuns(i, k) /\ hosts[HOST_IDS[k]].inDoc)
           /\ (w.promise = "pending" /\ CallbackRuns(i, k))
                 => IF hosts[HOST_IDS[k]].inDoc
                    THEN nw.promise = "resolved" /\ nw.observer = "disconnected"
                    ELSE nw = w

\* C14 (amended): a wait with timeout <= 0 sets no timer and never rejects;
\* it stays pending with its observer connected until a run of the observer's
\* callback finds a matching element in the document, and that run resolves
\* it with the element; a run that finds none (the element was removed again)
\* leaves it pending.
C14_ResolvesWhenCallbackFinds == []C14_State /\ [][C14_Step]_vars

\* C14 witness: one untimed wait was resolved by its observer after an
\* insertion, and another is still pending with its observer connected after
\* its host was inserted and removed again.
C14_Witness ==
    /\ \E <<i, k>> \in UntimedWaits :
          /\ waits[i][k].inserted
          /\ waits[i][k].promise = "resolved"
          /\ waits[i][k].observer = "disconnected"
    /\ \E <<i, k>> \in UntimedWaits :
          /\ waits[i][k].inserted
          /\ waits[i][k].promise = "pending"
          /\ ~hosts[HOST_IDS[k]].inDoc
          /\ ~Queued(microtasks, ObserverTask(i, k))

\* ---------------------------------------------------------------- claim C15
\* The positions whose records invocation i appends in the step taken.
Appended(i) == (Len(Results(i)) + 1)..Len(inv'[i].results)

\* The step appends a success, or a failure, record for host h.
SucceedsOn(h) ==
    \E i \in Invocations : \E k \in Appended(i) :
        inv'[i].results[k].hostId = h /\ inv'[i].results[k].ok

FailsOn(h) ==
    \E i \in Invocations : \E k \in Appended(i) :
        inv'[i].results[k].hostId = h /\ ~inv'[i].results[k].ok

\* The children of a shadow root other than the injected style node.
OtherChildren(children) == SelectSeq(children, LAMBDA n : n.id # STYLE_ID)

C15_Step ==
    \A h \in Hosts :
        \* the element itself is never moved or altered by a processing step
        /\ (SucceedsOn(h) \/ FailsOn(h))
              => (hosts'[h].inDoc = hosts[h].inDoc /\ hosts'[h].attach = hosts[h].attach)
        /\ IF SucceedsOn(h)
           THEN \* only the root (if missing) and the style node are touched
                /\ hosts[h].mode \in {"none", "open"}
                /\ hosts'[h].mode = "open"
                /\ OtherChildren(hosts'[h].children) = OtherChildren(hosts[h].children)
                /\ Cardinality(StyleNodes(h)') = 1
                /\ StyleNids(h) \subseteq StyleNids(h)'
           ELSE \* failure records, and steps about other hosts, change nothing
                /\ hosts'[h].mode = hosts[h].mode
                /\ hosts'[h].children = hosts[h].children

\* C15: a step that ends in a failure record leaves the shadow tree of every
\* host unchanged; a step that ends in a success record changes only the
\* style node with id 'my-custom-shadow-style' of that host's root (creating
\* root or node when missing), and no other child and no other host.
C15_OnlyTheStyleNode == [][C15_Step]_vars

\* C15 witness: an invocation injected into the first host, whose root keeps
\* its other child before the style node, and failed on the second host,
\* whose closed root is as it was.
C15_Witness ==
    \E i \in Invocations :
        /\ Len(Results(i)) >= 2
        /\ IsSuccess(Results(i)[1], "existing-open-shadowRoot")
        /\ Len(hosts[HostA].children) = 2
        /\ hosts[HostA].children[1].id = "app-root"
        /\ hosts[HostA].children[2] = Node(5, STYLE_ID, inv[i].cssText)
        /\ IsFailure(Results(i)[2], "attach-failed")
        /\ hosts[HostB].mode = "closed"
        /\ hosts[HostB].children = <<Node(3, "app-root", "")>>

\* ---------------------------------------------------------------- claim C16
\* The host HOST_IDS names at its first and again at its third position.
Repeated == HOST_IDS[1]

\* Invocation i is the only one called so far.
Alone(i) == \A m \in Invocations : m # i => ~Called(m)

\* The first record of invocation i is a success.
FirstSucceeded(i) == Len(Results(i)) >= 1 /\ Results(i)[1].ok

C16_State ==
    \A i \in Invocations :
        FirstSucceeded(i)
        => /\ hosts[Repeated].mode = "open"
           /\ Cardinality(StyleNodes(Repeated)) = 1
           \* position 3 succeeds through the root position 1 used or made
           /\ (Len(Results(i)) = Len(HOST_IDS) /\ presence[Repeated] # "removed")
                 => IsSuccess(Results(i)[3], "existing-open-shadowRoot")
           \* a single invocation: the root holds its text from step 1 on
           /\ Alone(i) => StyleTexts(Repeated) = {inv[i].cssText}

C16_Step ==
    \A i \in Invocations :
        FirstSucceeded(i)
        => \* the style node of step 1 stays the style node, among the same
           \* number of children
           /\ StyleNids(Repeated)' = StyleNids(Repeated)
           /\ Len(hosts'[Repeated].children) = Len(hosts[Repeated].children)
           \* the third step sets the invocation's text again
           /\ (3 \in Appended(i) /\ inv'[i].results[3].ok)
                 => StyleTexts(Repeated)' = {inv[i].cssText}
           \* in a single invocation no step after the first changes the root
           /\ (Alone(i) /\ Alone(i)')
                 => /\ hosts'[Repeated].children = hosts[Repeated].children
                    /\ hosts'[Repeated].mode = hosts[Repeated].mode

\* C16: in a single invocation on a document from which hosts are never
\* removed, a success at position 1 makes the record at position 3
\* {ok: true, used: 'existing-open-shadowRoot'}, never a failure, and the
\* third step leaves the root as the first step left it: the same single
\* style node with the same text.
C16_ReprocessingHarmless == []C16_State /\ [][C16_Step]_vars

\* C16 witness: a single invocation waited for the repeated host, attached
\* its root at position 1 and reused it at position 3; the root holds the one
\* node with the invocation's text.
C16_Witness ==
    \E i \in Invocations :
        /\ Alone(i) /\ inv[i].status = "done"
        /\ presence[Repeated] = "inserted"
        /\ IsSuccess(Results(i)[1], "attached-new-open-shadowRoot")
        /\ IsSuccess(Results(i)[3], "existing-open-shadowRoot")
        /\ hosts[Repeated].children = <<Node(5, STYLE_ID, inv[i].cssText)>>

\* ---------------------------------------------------------------- claim C17
C17_State ==
    \A h \in Hosts :
        AttachableFromStart(h)
        => /\ attachCalls[h] <= 1
           /\ attachCalls[h] = 1 <=> hosts[h].mode = "open"
           /\ \A i \in Invocations : \A k \in RecordsOf(i, h) :
                 ~IsFailure(Results(i)[k], "attach-failed")

C17_Step ==
    \A h \in Hosts :
        (AttachableFromStart(h) /\ attachCalls'[h] # attachCalls[h])
        => \* the one step that calls attachShadow finds no root, attaches one
           \* and pushes its record in the same step
           /\ hosts[h].mode = "none" /\ hosts'[h].mode = "open"
           /\ attachCalls'[h] = 1
           /\ \E i \in Invocations : \E k \in Appended(i) :
                 /\ inv'[i].results[k].hostId = h
                 /\ IsSuccess(inv'[i].results[k], "attached-new-open-shadowRoot")
           /\ \A i \in Invocations : \A k \in Appended(i) :
                 inv'[i].results[k].hostId = h => inv'[i].results[k].ok

\* C17: a processing step runs from the resumption to the push of its record
\* without suspension, so for a host without a shadow root whose attachShadow
\* succeeds at most one step over all invocations calls attachShadow on it,
\* and no invocation records attach-failed for it because another attached
\* the root first.
C17_AttachOnce == []C17_State /\ [][C17_Step]_vars

\* C17 witness: two concurrent invocations waited for the same rootless host
\* at the same position and were resumed by the same insertion; one attached
\* the root and the other reused it.
C17_Witness ==
    \E h \in Hosts : \E k \in Positions :
        /\ HOST_IDS[k] = h /\ AttachableFromStart(h) /\ attachCalls[h] = 1
        /\ Concurrent(1, 2)
        /\ \A i \in Invocations :
              /\ waits[i][k].inserted /\ waits[i][k].observer = "disconnected"
              /\ Len(Results(i)) >= k
        /\ \E i, j \in Invocations :
              /\ IsSuccess(Results(i)[k], "attached-new-open-shadowRoot")
              /\ IsSuccess(Results(j)[k], "existing-open-shadowRoot")

====
